---- MODULE Spec2Model ----
(***************************************************************************)
(* AWS Control Tower lifecycle events (lambda-events, controltower/mod.rs). *)
(* The types of the module derive serde's Serialize and Deserialize; the    *)
(* model is the derived code, driven by a description of each type taken    *)
(* from its declaration, and serde_json's reading and writing of documents. *)
(***************************************************************************)
EXTENDS Integers, Sequences, FiniteSets, TLC

(***************************************************************************)
(* Bounds of the model.                                                     *)
(***************************************************************************)
\* Longest list held by a value a caller constructs.
MaxLen == 2

(***************************************************************************)
(* JSON documents (serde_json).  An object keeps its members in document    *)
(* order: the derived visitors read them one after the other.               *)
(***************************************************************************)
NoDoc == [t |-> "none"]
JNull == [t |-> "null"]
JBool(b) == [t |-> "bool", b |-> b]
JStr(s) == [t |-> "string", s |-> s]
JArr(a) == [t |-> "array", a |-> a]
JObj(m) == [t |-> "object", m |-> m]

\* Option<T>: None and Some(x).
None == <<>>
Some(x) == <<x>>

\* Result<T, serde_json::Error>.
Ok(x) == [ok |-> TRUE, v |-> x]
Err(code, name) == [ok |-> FALSE, err |-> [code |-> code, name |-> name]]
NoResult == [ok |-> FALSE, err |-> [code |-> "none", name |-> ""]]

(***************************************************************************)
(* Identifiers and serde's rename rules.  An identifier is the sequence of  *)
(* its words, each word split into its first character and the rest, which  *)
(* is where the rules act.                                                  *)
(***************************************************************************)
LowerChars == <<"a", "b", "c", "d", "e", "f", "g", "h", "i", "j", "k", "l", "m",
                "n", "o", "p", "q", "r", "s", "t", "u", "v", "w", "x", "y", "z">>
UpperChars == <<"A", "B", "C", "D", "E", "F", "G", "H", "I", "J", "K", "L", "M",
                "N", "O", "P", "Q", "R", "S", "T", "U", "V", "W", "X", "Y", "Z">>

to_ascii_uppercase(c) ==
    IF \E i \in 1..26 : LowerChars[i] = c
    THEN UpperChars[CHOOSE i \in 1..26 : LowerChars[i] = c]
    ELSE c

to_ascii_lowercase(c) ==
    IF \E i \in 1..26 : UpperChars[i] = c
    THEN LowerChars[CHOOSE i \in 1..26 : UpperChars[i] = c]
    ELSE c

RECURSIVE Concat(_)
Concat(ws) == IF ws = <<>> THEN "" ELSE ws[1][1] \o ws[1][2] \o Concat(Tail(ws))

RECURSIVE Pascal(_)
Pascal(ws) ==
    IF ws = <<>> THEN ""
    ELSE to_ascii_uppercase(ws[1][1]) \o ws[1][2] \o Pascal(Tail(ws))

\* The Rust name of a field: its words joined by underscores.
RECURSIVE FieldName(_)
FieldName(ws) ==
    IF Len(ws) = 1 THEN ws[1][1] \o ws[1][2]
    ELSE ws[1][1] \o ws[1][2] \o "_" \o FieldName(Tail(ws))

\* The Rust name of a variant: its words as written.
VariantName(ws) == Concat(ws)

\* rename_all = "camelCase" on a struct: every character after an underscore
\* is upper-cased, the underscores dropped, the first character lower-cased.
CamelCaseField(ws) ==
    to_ascii_lowercase(to_ascii_uppercase(ws[1][1])) \o ws[1][2] \o Pascal(Tail(ws))

\* rename_all = "camelCase" on an enum: the first character lower-cased.
\* (PascalCaseVariant: the variant's name as written, had the enum no rule.)
PascalCaseVariant(ws) == Concat(ws)
CamelCaseVariant(ws) ==
    to_ascii_lowercase(ws[1][1]) \o ws[1][2] \o Concat(Tail(ws))

(***************************************************************************)
(* Types.                                                                   *)
(***************************************************************************)
TString == [k |-> "String"]
TBool == [k |-> "bool"]
TValue == [k |-> "Value"]
TOption(ty) == [k |-> "Option", of |-> ty]
TVec(ty) == [k |-> "Vec", of |-> ty]
TStruct(name) == [k |-> "struct", name |-> name]
TEnum(name) == [k |-> "enum", name |-> name]

\* A field: its words, its Rust name, the key the struct's rename rule gives
\* it, its type, whether it carries #[serde(default)], and its
\* #[serde(rename = "...")] when it has one.
Field(ws, ty) ==
    [ident |-> ws, name |-> FieldName(ws), camel |-> CamelCaseField(ws),
     ty |-> ty, default |-> FALSE, rename |-> None]
FieldDefault(ws, ty) ==
    [ident |-> ws, name |-> FieldName(ws), camel |-> CamelCaseField(ws),
     ty |-> ty, default |-> TRUE, rename |-> None]
FieldRename(ws, ty, key) ==
    [ident |-> ws, name |-> FieldName(ws), camel |-> CamelCaseField(ws),
     ty |-> ty, default |-> FALSE, rename |-> Some(key)]

\* A variant: its words, its Rust name, the key the enum's rename rule gives
\* it, and the struct it wraps.
Variant(ws, payload) ==
    [ident |-> ws, name |-> VariantName(ws), key |-> CamelCaseVariant(ws),
     payload |-> payload]

(***************************************************************************)
(* The structs of the module, field by field in declaration order.          *)
(***************************************************************************)
ControlTowerLifecycleEvent ==
    << Field(<<<<"e", "vent">>, <<"v", "ersion">>>>, TString),
       Field(<<<<"u", "ser">>, <<"i", "dentity">>>>, TStruct("UserIdentity")),
       Field(<<<<"e", "vent">>, <<"t", "ime">>>>, TString),
       Field(<<<<"e", "vent">>, <<"s", "ource">>>>, TString),
       Field(<<<<"e", "vent">>, <<"n", "ame">>>>, TString),
       Field(<<<<"a", "ws">>, <<"r", "egion">>>>, TString),
       FieldRename(<<<<"s", "ource">>, <<"i", "p">>, <<"a", "ddress">>>>, TString, "sourceIPAddress"),
       Field(<<<<"u", "ser">>, <<"a", "gent">>>>, TString),
       FieldRename(<<<<"e", "vent">>, <<"i", "d">>>>, TString, "eventID"),
       Field(<<<<"r", "ead">>, <<"o", "nly">>>>, TBool),
       Field(<<<<"e", "vent">>, <<"t", "ype">>>>, TString),
       Field(<<<<"s", "ervice">>, <<"e", "vent">>, <<"d", "etails">>>>, TEnum("ServiceEventDetails")),
       FieldDefault(<<<<"m", "anagement">>, <<"e", "vent">>>>, TOption(TBool)),
       FieldDefault(<<<<"r", "ecipient">>, <<"a", "ccount">>, <<"i", "d">>>>, TOption(TString)),
       FieldDefault(<<<<"r", "equest">>, <<"p", "arameters">>>>, TOption(TValue)),
       FieldDefault(<<<<"r", "esponse">>, <<"e", "lements">>>>, TOption(TValue)),
       FieldDefault(<<<<"e", "vent">>, <<"c", "ategory">>>>, TOption(TString)) >>

UserIdentity ==
    << Field(<<<<"a", "ccount">>, <<"i", "d">>>>, TString),
       FieldDefault(<<<<"i", "nvoked">>, <<"b", "y">>>>, TOption(TString)) >>

OrganizationalUnit ==
    << Field(<<<<"o", "rganizational">>, <<"u", "nit">>, <<"n", "ame">>>>, TString),
       Field(<<<<"o", "rganizational">>, <<"u", "nit">>, <<"i", "d">>>>, TString) >>

Account ==
    << Field(<<<<"a", "ccount">>, <<"n", "ame">>>>, TString),
       Field(<<<<"a", "ccount">>, <<"i", "d">>>>, TString) >>

Guardrail ==
    << Field(<<<<"g", "uardrail">>, <<"i", "d">>>>, TString),
       Field(<<<<"g", "uardrail">>, <<"b", "ehavior">>>>, TString) >>

ManagedAccountStatus ==
    << Field(<<<<"o", "rganizational">>, <<"u", "nit">>>>, TStruct("OrganizationalUnit")),
       Field(<<<<"a", "ccount">>>>, TStruct("Account")),
       Field(<<<<"s", "tate">>>>, TString),
       Field(<<<<"m", "essage">>>>, TString),
       Field(<<<<"r", "equested">>, <<"t", "imestamp">>>>, TString),
       Field(<<<<"c", "ompleted">>, <<"t", "imestamp">>>>, TString) >>

GuardrailStatus ==
    << Field(<<<<"o", "rganizational">>, <<"u", "nits">>>>, TVec(TStruct("OrganizationalUnit"))),
       Field(<<<<"g", "uardrails">>>>, TVec(TStruct("Guardrail"))),
       Field(<<<<"s", "tate">>>>, TString),
       Field(<<<<"m", "essage">>>>, TString),
       Field(<<<<"r", "equest">>, <<"t", "imestamp">>>>, TString),
       Field(<<<<"c", "ompleted">>, <<"t", "imestamp">>>>, TString) >>

LandingZoneStatus ==
    << Field(<<<<"s", "tate">>>>, TString),
       Field(<<<<"m", "essage">>>>, TString),
       Field(<<<<"r", "oot">>, <<"o", "rganizational">>, <<"i", "d">>>>, TString),
       Field(<<<<"o", "rganizational">>, <<"u", "nits">>>>, TVec(TStruct("OrganizationalUnit"))),
       Field(<<<<"a", "ccounts">>>>, TVec(TStruct("Account"))),
       Field(<<<<"r", "equested">>, <<"t", "imestamp">>>>, TString),
       Field(<<<<"c", "ompleted">>, <<"t", "imestamp">>>>, TString) >>

OrganizationalUnitRegistrationStatus ==
    << Field(<<<<"s", "tate">>>>, TString),
       Field(<<<<"m", "essage">>>>, TString),
       Field(<<<<"o", "rganizational">>, <<"u", "nit">>>>, TStruct("OrganizationalUnit")),
       Field(<<<<"r", "equested">>, <<"t", "imestamp">>>>, TString),
       Field(<<<<"c", "ompleted">>, <<"t", "imestamp">>>>, TString) >>

PrecheckOrganizationalUnit ==
    << Field(<<<<"o", "rganizational">>, <<"u", "nit">>, <<"n", "ame">>>>, TString),
       Field(<<<<"o", "rganizational">>, <<"u", "nit">>, <<"i", "d">>>>, TString),
       FieldDefault(<<<<"f", "ailed">>, <<"p", "rechecks">>>>, TVec(TString)) >>

PrecheckAccount ==
    << Field(<<<<"a", "ccount">>, <<"n", "ame">>>>, TString),
       Field(<<<<"a", "ccount">>, <<"i", "d">>>>, TString),
       FieldDefault(<<<<"f", "ailed">>, <<"p", "rechecks">>>>, TVec(TString)) >>

PrecheckOrganizationalUnitStatus ==
    << Field(<<<<"o", "rganizational">>, <<"u", "nit">>>>, TStruct("PrecheckOrganizationalUnit")),
       Field(<<<<"a", "ccounts">>>>, TVec(TStruct("PrecheckAccount"))),
       Field(<<<<"s", "tate">>>>, TString),
       Field(<<<<"m", "essage">>>>, TString),
       Field(<<<<"r", "equested">>, <<"t", "imestamp">>>>, TString),
       Field(<<<<"c", "ompleted">>, <<"t", "imestamp">>>>, TString) >>

BaselineStatusSummary ==
    << Field(<<<<"l", "ast">>, <<"o", "peration">>, <<"i", "dentifier">>>>, TString),
       Field(<<<<"s", "tatus">>>>, TString) >>

BaselineParameterValue ==
    << Field(<<<<"u", "ntyped">>>>, TStruct("BaselineUntypedValue")) >>

BaselineUntypedValue ==
    << Field(<<<<"o", "bject">>>>, TString) >>

BaselineParameter ==
    << Field(<<<<"k", "ey">>>>, TString),
       Field(<<<<"v", "alue">>>>, TStruct("BaselineParameterValue")) >>

EnabledBaselineDetails ==
    << Field(<<<<"a", "rn">>>>, TString),
       Field(<<<<"p", "arent">>, <<"i", "dentifier">>>>, TString),
       Field(<<<<"t", "arget">>, <<"i", "dentifier">>>>, TString),
       Field(<<<<"b", "aseline">>, <<"i", "dentifier">>>>, TString),
       Field(<<<<"b", "aseline">>, <<"v", "ersion">>>>, TString),
       Field(<<<<"s", "tatus">>, <<"s", "ummary">>>>, TStruct("BaselineStatusSummary")),
       FieldDefault(<<<<"p", "arameters">>>>, TVec(TStruct("BaselineParameter"))) >>

\* BaselineStatus had baseline_details been declared a plain
\* EnabledBaselineDetails.
BaselineStatusDetailsRequired ==
    << Field(<<<<"e", "nabled">>, <<"b", "aseline">>, <<"d", "etails">>>>, TStruct("EnabledBaselineDetails")),
       Field(<<<<"b", "aseline">>, <<"d", "etails">>>>, TStruct("EnabledBaselineDetails")),
       Field(<<<<"r", "equested">>, <<"t", "imestamp">>>>, TString),
       Field(<<<<"c", "ompleted">>, <<"t", "imestamp">>>>, TString) >>

BaselineStatus ==
    << Field(<<<<"e", "nabled">>, <<"b", "aseline">>, <<"d", "etails">>>>, TStruct("EnabledBaselineDetails")),
       FieldDefault(<<<<"b", "aseline">>, <<"d", "etails">>>>, TOption(TStruct("EnabledBaselineDetails"))),
       Field(<<<<"r", "equested">>, <<"t", "imestamp">>>>, TString),
       Field(<<<<"c", "ompleted">>, <<"t", "imestamp">>>>, TString) >>

\* The struct of a name.
Fields(name) ==
    CASE name = "ControlTowerLifecycleEvent" -> ControlTowerLifecycleEvent
      [] name = "UserIdentity" -> UserIdentity
      [] name = "OrganizationalUnit" -> OrganizationalUnit
      [] name = "Account" -> Account
      [] name = "Guardrail" -> Guardrail
      [] name = "ManagedAccountStatus" -> ManagedAccountStatus
      [] name = "GuardrailStatus" -> GuardrailStatus
      [] name = "LandingZoneStatus" -> LandingZoneStatus
      [] name = "OrganizationalUnitRegistrationStatus" -> OrganizationalUnitRegistrationStatus
      [] name = "PrecheckOrganizationalUnit" -> PrecheckOrganizationalUnit
      [] name = "PrecheckAccount" -> PrecheckAccount
      [] name = "PrecheckOrganizationalUnitStatus" -> PrecheckOrganizationalUnitStatus
      [] name = "BaselineStatusSummary" -> BaselineStatusSummary
      [] name = "BaselineParameterValue" -> BaselineParameterValue
      [] name = "BaselineUntypedValue" -> BaselineUntypedValue
      [] name = "BaselineParameter" -> BaselineParameter
      [] name = "EnabledBaselineDetails" -> EnabledBaselineDetails
      [] name = "BaselineStatus" -> BaselineStatus

\* The enum: each variant's words and the struct it wraps, in declaration order.
ServiceEventDetails ==
    << Variant(<<<<"C", "reate">>, <<"M", "anaged">>, <<"A", "ccount">>, <<"S", "tatus">>>>, "ManagedAccountStatus"),
       Variant(<<<<"U", "pdate">>, <<"M", "anaged">>, <<"A", "ccount">>, <<"S", "tatus">>>>, "ManagedAccountStatus"),
       Variant(<<<<"E", "nable">>, <<"G", "uardrail">>, <<"S", "tatus">>>>, "GuardrailStatus"),
       Variant(<<<<"D", "isable">>, <<"G", "uardrail">>, <<"S", "tatus">>>>, "GuardrailStatus"),
       Variant(<<<<"S", "etup">>, <<"L", "anding">>, <<"Z", "one">>, <<"S", "tatus">>>>, "LandingZoneStatus"),
       Variant(<<<<"U", "pdate">>, <<"L", "anding">>, <<"Z", "one">>, <<"S", "tatus">>>>, "LandingZoneStatus"),
       Variant(<<<<"R", "egister">>, <<"O", "rganizational">>, <<"U", "nit">>, <<"S", "tatus">>>>, "OrganizationalUnitRegistrationStatus"),
       Variant(<<<<"D", "eregister">>, <<"O", "rganizational">>, <<"U", "nit">>, <<"S", "tatus">>>>, "OrganizationalUnitRegistrationStatus"),
       Variant(<<<<"P", "recheck">>, <<"O", "rganizational">>, <<"U", "nit">>, <<"S", "tatus">>>>, "PrecheckOrganizationalUnitStatus"),
       Variant(<<<<"E", "nable">>, <<"B", "aseline">>, <<"S", "tatus">>>>, "BaselineStatus"),
       Variant(<<<<"R", "eset">>, <<"E", "nabled">>, <<"B", "aseline">>, <<"S", "tatus">>>>, "BaselineStatus"),
       Variant(<<<<"U", "pdate">>, <<"E", "nabled">>, <<"B", "aseline">>, <<"S", "tatus">>>>, "BaselineStatus"),
       Variant(<<<<"D", "isable">>, <<"B", "aseline">>, <<"S", "tatus">>>>, "BaselineStatus") >>


(***************************************************************************)
(* Names on the wire.                                                       *)
(***************************************************************************)
\* The key of a field: its rename when it has one, the struct's rule otherwise.
\* ExternalKey had the renames been left to the struct's rule.
ExternalKeyByRule(f) == f.camel
ExternalKey(f) == IF f.rename # None THEN f.rename[1] ELSE f.camel

\* The key of a variant.
VariantKey(vr) == vr.key

Variants == {ServiceEventDetails[i] : i \in 1..Len(ServiceEventDetails)}
VariantNames == {vr.name : vr \in Variants}
VariantKeys == {VariantKey(vr) : vr \in Variants}
VariantNamed(n) == CHOOSE vr \in Variants : vr.name = n
VariantKeyed(k) == CHOOSE vr \in Variants : VariantKey(vr) = k

FieldNames(fs) == {fs[i].name : i \in 1..Len(fs)}

(***************************************************************************)
(* Serialize (derived), written by serde_json::to_string.  Every field is   *)
(* written, in declaration order: no field carries skip_serializing_if, and *)
(* a None is written as null.                                               *)
(***************************************************************************)
RECURSIVE Serialize(_, _)
Serialize(ty, x) ==
    CASE ty.k = "String" -> JStr(x)
      [] ty.k = "bool" -> JBool(x)
      [] ty.k = "Value" -> x
      [] ty.k = "Option" -> IF x = None THEN JNull ELSE Serialize(ty.of, x[1])
      [] ty.k = "Vec" -> JArr([i \in 1..Len(x) |-> Serialize(ty.of, x[i])])
      [] ty.k = "struct" ->
           LET fs == Fields(ty.name)
           IN  JObj([i \in 1..Len(fs) |->
                       <<ExternalKey(fs[i]),
                         Serialize(fs[i].ty, x[fs[i].name])>>])
      [] ty.k = "enum" ->
           LET vr == VariantNamed(x.variant)
           IN  JObj(<< <<VariantKey(vr), Serialize(TStruct(vr.payload), x.payload)>> >>)

(***************************************************************************)
(* Deserialize (derived), read by serde_json::from_slice.                   *)
(***************************************************************************)
\* Default::default() of a field's type.
DefaultOf(ty) ==
    CASE ty.k = "Option" -> None
      [] ty.k = "Vec" -> <<>>
      [] ty.k = "String" -> ""
      [] ty.k = "bool" -> FALSE

\* serde's missing_field: an Option is None, anything else is an error that
\* names the key.
\* missing_field had it filled an absent String with the empty string.
MissingFieldEmptyString(f) ==
    IF f.ty.k \in {"Option", "String"} THEN Ok(DefaultOf(f.ty))
    ELSE Err("missing_field", ExternalKey(f))
MissingField(f) ==
    IF f.ty.k = "Option" THEN Ok(None) ELSE Err("missing_field", ExternalKey(f))

\* What a field that the document did not give becomes.
\* Absent had no field been given a default.
AbsentIsError(f) == Err("missing_field", ExternalKey(f))
Absent(f) == IF f.default THEN Ok(DefaultOf(f.ty)) ELSE MissingField(f)

\* The end of visit_map: the fields in declaration order, the first one that
\* cannot be filled ending the decode.
Finish(fs, slots) ==
    LET filled == [i \in 1..Len(fs) |->
                     LET n == fs[i].name
                     IN  IF slots[n] # None THEN Ok(slots[n][1]) ELSE Absent(fs[i])]
        bad == {i \in 1..Len(fs) : ~filled[i].ok}
    IN  IF bad # {}
        THEN filled[CHOOSE i \in bad : \A j \in bad : i <= j]
        ELSE Ok([n \in FieldNames(fs) |->
                   filled[CHOOSE i \in 1..Len(fs) : fs[i].name = n].v])

RECURSIVE Deserialize(_, _)
RECURSIVE VisitMap(_, _, _, _)
RECURSIVE VisitSeq(_, _, _, _)
RECURSIVE VisitVec(_, _, _, _)

\* visit_map of a struct: the members one after the other; an unknown key is
\* skipped, a key seen twice is an error, a value is decoded as it is met.
VisitMap(fs, members, i, slots) ==
    IF i > Len(members) THEN Finish(fs, slots)
    ELSE LET key == members[i][1]
             hit == {j \in 1..Len(fs) : ExternalKey(fs[j]) = key}
         IN  IF hit = {} THEN VisitMap(fs, members, i + 1, slots)
             ELSE LET f == fs[CHOOSE j \in hit : TRUE]
                      n == f.name
                  IN  IF slots[n] # None THEN Err("duplicate_field", key)
                      ELSE LET r == Deserialize(f.ty, members[i][2])
                           IN  IF ~r.ok THEN r
                               ELSE VisitMap(fs, members, i + 1,
                                             [slots EXCEPT ![n] = Some(r.v)])

\* visit_seq of a struct: the fields by position.
VisitSeq(fs, elems, i, slots) ==
    IF i > Len(fs)
    THEN IF Len(elems) > Len(fs) THEN Err("TrailingCharacters", "")
         ELSE Finish(fs, slots)
    ELSE IF i > Len(elems) THEN Err("invalid_length", "")
    ELSE LET r == Deserialize(fs[i].ty, elems[i])
         IN  IF ~r.ok THEN r
             ELSE VisitSeq(fs, elems, i + 1,
                           [slots EXCEPT ![fs[i].name] = Some(r.v)])

\* VisitVec had each element been put in front of the ones before it.
VisitVecPrepending(ty, elems, i, acc) ==
    IF i > Len(elems) THEN Ok(acc)
    ELSE LET r == Deserialize(ty, elems[i])
         IN  IF ~r.ok THEN r ELSE VisitVec(ty, elems, i + 1, <<r.v>> \o acc)

\* A Vec: the elements in document order.
VisitVec(ty, elems, i, acc) ==
    IF i > Len(elems) THEN Ok(acc)
    ELSE LET r == Deserialize(ty, elems[i])
         IN  IF ~r.ok THEN r ELSE VisitVec(ty, elems, i + 1, Append(acc, r.v))

\* The externally tagged enum, as serde_json reads it: the first key of the
\* object names the variant, its value is the payload, and the object must
\* end there.
DeserializeEnum(j) ==
    IF j.t = "object"
    THEN IF j.m = <<>> THEN Err("ExpectedSomeValue", "")
         ELSE LET key == j.m[1][1]
              IN  IF key \notin VariantKeys THEN Err("unknown_variant", key)
                  ELSE LET vr == VariantKeyed(key)
                           r == Deserialize(TStruct(vr.payload), j.m[1][2])
                       IN  IF ~r.ok THEN r
                           ELSE IF Len(j.m) > 1 THEN Err("ExpectedSomeValue", "")
                           ELSE Ok([variant |-> vr.name, payload |-> r.v])
    ELSE IF j.t = "string"
    THEN IF j.s \notin VariantKeys THEN Err("unknown_variant", j.s)
         ELSE Err("invalid_type", "")
    ELSE Err("ExpectedSomeValue", "")

Deserialize(ty, j) ==
    CASE ty.k = "String" -> IF j.t = "string" THEN Ok(j.s) ELSE Err("invalid_type", "")
      [] ty.k = "bool" -> IF j.t = "bool" THEN Ok(j.b) ELSE Err("invalid_type", "")
      [] ty.k = "Value" -> Ok(j)
      [] ty.k = "Option" ->
           IF j.t = "null" THEN Ok(None)
           ELSE LET r == Deserialize(ty.of, j)
                IN  IF r.ok THEN Ok(Some(r.v)) ELSE r
      [] ty.k = "Vec" ->
           IF j.t = "array" THEN VisitVec(ty.of, j.a, 1, <<>>)
           ELSE Err("invalid_type", "")
      [] ty.k = "struct" ->
           LET fs == Fields(ty.name)
               empty == [n \in FieldNames(fs) |-> None]
           IN  IF j.t = "object" THEN VisitMap(fs, j.m, 1, empty)
               ELSE IF j.t = "array" THEN VisitSeq(fs, j.a, 1, empty)
               ELSE Err("invalid_type", "")
      [] ty.k = "enum" -> DeserializeEnum(j)

\* serde_json::from_slice::<ControlTowerLifecycleEvent> and serde_json::to_string.
from_slice(doc) == Deserialize(TStruct("ControlTowerLifecycleEvent"), doc)
to_string(e) == Serialize(TStruct("ControlTowerLifecycleEvent"), e)

(***************************************************************************)
(* The documents of the tests (fixtures/example-controltower-*.json): one   *)
(* per variant, each with the event name and the discriminator key the      *)
(* service sends for it.                                                    *)
(***************************************************************************)
Ix == <<"1", "2", "3", "4", "5", "6", "7", "8", "9">>

OrganizationalUnitDoc(s) ==
    JObj(<< <<"organizationalUnitName", JStr("Custom" \o s)>>,
            <<"organizationalUnitId", JStr("ou-" \o s)>> >>)

AccountDoc(s) ==
    JObj(<< <<"accountName", JStr("Account" \o s)>>,
            <<"accountId", JStr("acct-" \o s)>> >>)

GuardrailDoc(s) ==
    JObj(<< <<"guardrailId", JStr("AWS-GR-" \o s)>>,
            <<"guardrailBehavior", JStr("DETECTIVE" \o s)>> >>)

ManagedAccountStatusDoc ==
    JObj(<< <<"organizationalUnit", OrganizationalUnitDoc("1")>>,
            <<"account", AccountDoc("1")>>,
            <<"state", JStr("SUCCEEDED")>>,
            <<"message", JStr("AWS Control Tower successfully created a managed account.")>>,
            <<"requestedTimestamp", JStr("2019-11-15T11:45:18+0000")>>,
            <<"completedTimestamp", JStr("2019-11-16T12:09:32+0000")>> >>)

GuardrailStatusDoc ==
    JObj(<< <<"organizationalUnits", JArr([i \in 1..MaxLen |-> OrganizationalUnitDoc(Ix[i])])>>,
            <<"guardrails", JArr([i \in 1..MaxLen |-> GuardrailDoc(Ix[i])])>>,
            <<"state", JStr("SUCCEEDED")>>,
            <<"message", JStr("AWS Control Tower successfully enabled a guardrail.")>>,
            <<"requestTimestamp", JStr("2019-11-12T09:01:07+0000")>>,
            <<"completedTimestamp", JStr("2019-11-12T09:01:54+0000")>> >>)

LandingZoneStatusDoc ==
    JObj(<< <<"state", JStr("SUCCEEDED")>>,
            <<"message", JStr("AWS Control Tower successfully set up a new landing zone.")>>,
            <<"rootOrganizationalId", JStr("r-1234")>>,
            <<"organizationalUnits", JArr([i \in 1..MaxLen |-> OrganizationalUnitDoc(Ix[i])])>>,
            <<"accounts", JArr([i \in 1..MaxLen |-> AccountDoc(Ix[i])])>>,
            <<"requestedTimestamp", JStr("2019-11-15T09:01:07+0000")>>,
            <<"completedTimestamp", JStr("2019-11-15T09:31:54+0000")>> >>)

OrganizationalUnitRegistrationStatusDoc ==
    JObj(<< <<"state", JStr("SUCCEEDED")>>,
            <<"message", JStr("AWS Control Tower successfully registered an organizational unit.")>>,
            <<"organizationalUnit", OrganizationalUnitDoc("1")>>,
            <<"requestedTimestamp", JStr("2020-09-15T09:01:07+0000")>>,
            <<"completedTimestamp", JStr("2020-09-15T09:31:54+0000")>> >>)

FailedPrechecksDoc(s) == JArr([i \in 1..MaxLen |-> JStr("PRECHECK_" \o s \o Ix[i])])

PrecheckOrganizationalUnitStatusDoc ==
    JObj(<< <<"organizationalUnit",
              JObj(<< <<"organizationalUnitName", JStr("Ou-123")>>,
                      <<"organizationalUnitId", JStr("ou-abcd-12345678")>>,
                      <<"failedPrechecks", FailedPrechecksDoc("OU")>> >>)>>,
            <<"accounts",
              JArr([i \in 1..MaxLen |->
                      JObj(<< <<"accountName", JStr("Child Account " \o Ix[i])>>,
                              <<"accountId", JStr("11111111111" \o Ix[i])>>,
                              <<"failedPrechecks", FailedPrechecksDoc(Ix[i])>> >>)])>>,
            <<"state", JStr("FAILED")>>,
            <<"message", JStr("AWS Control Tower failed to register an organizational unit.")>>,
            <<"requestedTimestamp", JStr("2021-09-20T22:45:43+0000")>>,
            <<"completedTimestamp", JStr("2021-09-20T22:46:41+0000")>> >>)

EnabledBaselineDetailsDoc(s) ==
    JObj(<< <<"arn", JStr("arn:aws:controltower:" \o s)>>,
            <<"parentIdentifier", JStr("parent-" \o s)>>,
            <<"targetIdentifier", JStr("target-" \o s)>>,
            <<"baselineIdentifier", JStr("baseline-" \o s)>>,
            <<"baselineVersion", JStr("4.0-" \o s)>>,
            <<"statusSummary",
              JObj(<< <<"lastOperationIdentifier", JStr("op-" \o s)>>,
                      <<"status", JStr("SUCCEEDED")>> >>)>>,
            <<"parameters",
              JArr([i \in 1..MaxLen |->
                      JObj(<< <<"key", JStr("Key" \o s \o Ix[i])>>,
                              <<"value",
                                JObj(<< <<"untyped",
                                          JObj(<< <<"object", JStr("obj" \o s \o Ix[i])>> >>)>> >>)>> >>)])>> >>)

BaselineStatusDoc(withBaselineDetails) ==
    JObj(<< <<"enabledBaselineDetails", EnabledBaselineDetailsDoc("enabled")>> >>
         \o (IF withBaselineDetails
             THEN << <<"baselineDetails", EnabledBaselineDetailsDoc("base")>> >>
             ELSE <<>>)
         \o << <<"requestedTimestamp", JStr("2024-11-20T22:45:43+0000")>>,
               <<"completedTimestamp", JStr("2024-11-20T22:46:41+0000")>> >>)

RequestParametersDoc == JObj(<< <<"accountName", JStr("Account1")>> >>)

\* The envelope around a payload.
EventDoc(eventName, key, payload) ==
    JObj(<< <<"eventVersion", JStr("1.05")>>,
            <<"userIdentity",
              JObj(<< <<"accountId", JStr("123456789012")>>,
                      <<"invokedBy", JStr("AWS Internal")>> >>)>>,
            <<"eventTime", JStr("2018-08-30T21:42:18Z")>>,
            <<"eventSource", JStr("controltower.amazonaws.com")>>,
            <<"eventName", JStr(eventName)>>,
            <<"awsRegion", JStr("us-east-1")>>,
            <<"sourceIPAddress", JStr("AWS Internal IP")>>,
            <<"userAgent", JStr("AWS Internal UA")>>,
            <<"eventID", JStr("0000000-0000-0000-1111-123456789012")>>,
            <<"readOnly", JBool(FALSE)>>,
            <<"eventType", JStr("AwsServiceEvent")>>,
            <<"serviceEventDetails", JObj(<< <<key, payload>> >>)>>,
            <<"managementEvent", JBool(TRUE)>>,
            <<"recipientAccountId", JStr("210987654321")>>,
            <<"requestParameters", RequestParametersDoc>>,
            <<"responseElements", JStr("elements")>>,
            <<"eventCategory", JStr("Management")>> >>)

Fixture(variant, eventName, key, payload) ==
    [variant |-> variant, eventName |-> eventName, key |-> key, payload |-> payload]

Fixtures ==
    { Fixture("CreateManagedAccountStatus", "CreateManagedAccount",
              "createManagedAccountStatus", ManagedAccountStatusDoc),
      Fixture("UpdateManagedAccountStatus", "UpdateManagedAccount",
              "updateManagedAccountStatus", ManagedAccountStatusDoc),
      Fixture("EnableGuardrailStatus", "EnableGuardrail",
              "enableGuardrailStatus", GuardrailStatusDoc),
      Fixture("DisableGuardrailStatus", "DisableGuardrail",
              "disableGuardrailStatus", GuardrailStatusDoc),
      Fixture("SetupLandingZoneStatus", "SetupLandingZone",
              "setupLandingZoneStatus", LandingZoneStatusDoc),
      Fixture("UpdateLandingZoneStatus", "UpdateLandingZone",
              "updateLandingZoneStatus", LandingZoneStatusDoc),
      Fixture("RegisterOrganizationalUnitStatus", "RegisterOrganizationalUnit",
              "registerOrganizationalUnitStatus", OrganizationalUnitRegistrationStatusDoc),
      Fixture("DeregisterOrganizationalUnitStatus", "DeregisterOrganizationalUnit",
              "deregisterOrganizationalUnitStatus", OrganizationalUnitRegistrationStatusDoc),
      Fixture("PrecheckOrganizationalUnitStatus", "PrecheckOrganizationalUnit",
              "precheckOrganizationalUnitStatus", PrecheckOrganizationalUnitStatusDoc),
      Fixture("EnableBaselineStatus", "EnableBaseline",
              "enableBaselineStatus", BaselineStatusDoc(FALSE)),
      Fixture("ResetEnabledBaselineStatus", "ResetEnabledBaseline",
              "resetEnabledBaselineStatus", BaselineStatusDoc(FALSE)),
      Fixture("UpdateEnabledBaselineStatus", "UpdateEnabledBaseline",
              "updateEnabledBaselineStatus", BaselineStatusDoc(FALSE)),
      Fixture("DisableBaselineStatus", "DisableBaseline",
              "disableBaselineStatus", BaselineStatusDoc(TRUE)) }

FixtureDoc(fx) == EventDoc(fx.eventName, fx.key, fx.payload)

\* The documents the service sends: the tests' thirteen, and each baseline
\* variant with and without baselineDetails.
BaselineVariants ==
    {"EnableBaselineStatus", "ResetEnabledBaselineStatus",
     "UpdateEnabledBaselineStatus", "DisableBaselineStatus"}

ServiceDocuments ==
    Fixtures \cup
    {[fx EXCEPT !.payload = BaselineStatusDoc(b)] :
        fx \in {f \in Fixtures : f.variant \in BaselineVariants}, b \in BOOLEAN}

(***************************************************************************)
(* Values a caller constructs directly (the fields are public and the       *)
(* builders set any of them): every string names its place in the value.    *)
(***************************************************************************)
\* The opaque values held: serde_json::Value keeps an object's members in
\* a map, so the ones here have at most one member and read back as written.
OpaqueValues == {JNull, JStr("opaque"), RequestParametersDoc}

EnvelopeOptionals ==
    {"management_event", "recipient_account_id", "request_parameters",
     "response_elements", "event_category", "invoked_by"}

RECURSIVE Sample(_, _, _, _)
Sample(ty, path, leaf, cfg) ==
    CASE ty.k = "String" -> path
      [] ty.k = "bool" -> TRUE
      [] ty.k = "Value" -> cfg.opaque
      [] ty.k = "Option" ->
           IF leaf \in cfg.opts THEN Some(Sample(ty.of, path, leaf, cfg)) ELSE None
      [] ty.k = "Vec" ->
           [i \in 1..cfg.n |-> Sample(ty.of, path \o "[" \o Ix[i] \o "]", leaf, cfg)]
      [] ty.k = "struct" ->
           LET fs == Fields(ty.name)
           IN  [n \in FieldNames(fs) |->
                  Sample(fs[CHOOSE i \in 1..Len(fs) : fs[i].name = n].ty,
                         path \o "." \o n, n, cfg)]
      [] ty.k = "enum" ->
           [variant |-> cfg.variant,
            payload |-> Sample(TStruct(VariantNamed(cfg.variant).payload),
                               path \o "." \o cfg.variant, leaf, cfg)]

SampleEvent(cfg) == Sample(TStruct("ControlTowerLifecycleEvent"), "event", "", cfg)

\* Every variant with lists of every length, and one variant with every
\* combination of optional attributes and every opaque value.
BuildConfigs ==
    {[variant |-> v, n |-> n, opts |-> EnvelopeOptionals \cup b, opaque |-> JStr("opaque")] :
        v \in VariantNames, n \in 0..MaxLen, b \in SUBSET {"baseline_details"}}
    \cup
    {[variant |-> "DisableBaselineStatus", n |-> MaxLen, opts |-> o, opaque |-> q] :
        o \in SUBSET (EnvelopeOptionals \cup {"baseline_details"}),
        q \in OpaqueValues}

(***************************************************************************)
(* Places in a document: the keys, and the positions in arrays, that lead   *)
(* to a member.                                                             *)
(***************************************************************************)
IndexOf(members, key) == CHOOSE i \in 1..Len(members) : members[i][1] = key
HasKey(j, key) == j.t = "object" /\ \E i \in 1..Len(j.m) : j.m[i][1] = key
Position(step) == CHOOSE i \in 1..Len(Ix) : Ix[i] = step
Keys(j) == {j.m[i][1] : i \in 1..Len(j.m)}

RECURSIVE Get(_, _)
Get(j, path) ==
    IF path = <<>> THEN j
    ELSE IF j.t = "object" THEN Get(j.m[IndexOf(j.m, path[1])][2], Tail(path))
    ELSE Get(j.a[Position(path[1])], Tail(path))

RECURSIVE Has(_, _)
Has(j, path) ==
    IF path = <<>> THEN TRUE
    ELSE IF j.t = "object" THEN HasKey(j, path[1]) /\ Has(Get(j, <<path[1]>>), Tail(path))
    ELSE IF j.t = "array"
    THEN /\ \E i \in 1..Len(j.a) : i <= Len(Ix) /\ Ix[i] = path[1]
         /\ Has(j.a[Position(path[1])], Tail(path))
    ELSE FALSE

Without(members, key) ==
    LET keep == {i \in 1..Len(members) : members[i][1] # key}
        nth(k) == CHOOSE i \in keep : Cardinality({h \in keep : h < i}) = k - 1
    IN  [k \in 1..Cardinality(keep) |-> members[nth(k)]]

RECURSIVE Remove(_, _)
Remove(j, path) ==
    IF Len(path) = 1 THEN JObj(Without(j.m, path[1]))
    ELSE IF j.t = "object"
    THEN LET i == IndexOf(j.m, path[1])
         IN  JObj([j.m EXCEPT ![i] = <<path[1], Remove(j.m[i][2], Tail(path))>>])
    ELSE LET i == Position(path[1])
         IN  JArr([j.a EXCEPT ![i] = Remove(j.a[i], Tail(path))])

RECURSIVE Put(_, _, _)
Put(j, path, val) ==
    IF path = <<>> THEN val
    ELSE IF j.t = "object"
    THEN LET i == IndexOf(j.m, path[1])
         IN  JObj([j.m EXCEPT ![i] = <<path[1], Put(j.m[i][2], Tail(path), val)>>])
    ELSE LET i == Position(path[1])
         IN  JArr([j.a EXCEPT ![i] = Put(j.a[i], Tail(path), val)])

RenameKeyIn(j, old, new) ==
    JObj([i \in 1..Len(j.m) |-> IF j.m[i][1] = old THEN <<new, j.m[i][2]>> ELSE j.m[i]])

RECURSIVE RemoveAll(_, _)
RemoveAll(j, paths) ==
    IF paths = {} THEN j
    ELSE LET p == CHOOSE q \in paths : TRUE
         IN  RemoveAll(Remove(j, p), paths \ {p})

\* Every path that ends at a member of an object.
RECURSIVE KeyPaths(_)
KeyPaths(j) ==
    IF j.t = "object"
    THEN UNION {{<<j.m[i][1]>>} \cup {<<j.m[i][1]>> \o p : p \in KeyPaths(j.m[i][2])} :
                  i \in 1..Len(j.m)}
    ELSE IF j.t = "array"
    THEN UNION {{<<Ix[i]>> \o p : p \in KeyPaths(j.a[i])} : i \in 1..Len(j.a)}
    ELSE {}

(***************************************************************************)
(* The program: a document arrives (as the service sent it, or damaged on   *)
(* the way) and is decoded, or a caller constructs a value; a value is      *)
(* encoded; the encoding is decoded again (as every test does).             *)
(***************************************************************************)
VARIABLES
    pc,        \* "start", "input", "parsed", "output", "reparsed"
    data,      \* the document to decode
    parsed,    \* from_slice(data), or the value constructed
    output,    \* to_string(parsed)
    reparsed,  \* from_slice(output)
    origin     \* where data or parsed came from

vars == <<pc, data, parsed, output, reparsed, origin>>

NoTamper == [kind |-> "none"]

\* The envelope's keys that may be absent, as paths.
OptionalPaths ==
    {<<"managementEvent">>, <<"recipientAccountId">>, <<"requestParameters">>,
     <<"responseElements">>, <<"eventCategory">>, <<"userIdentity", "invokedBy">>}

\* The two irregular keys and what the casing rule alone would call them.
RegularKey(k) ==
    CASE k = "eventID" -> "eventId"
      [] k = "sourceIPAddress" -> "sourceIpAddress"

IrregularKeys == {"eventID", "sourceIPAddress"}

UnknownKey == "futureOperationStatus"

Init ==
    /\ pc = "start"
    /\ data = NoDoc
    /\ parsed = NoResult
    /\ output = NoDoc
    /\ reparsed = NoResult
    /\ origin = [kind |-> "none"]

\* A document of the service arrives.
Load(fx) ==
    /\ pc = "start"
    /\ pc' = "input"
    /\ data' = FixtureDoc(fx)
    /\ origin' = [kind |-> "document", fx |-> fx, tamper |-> NoTamper]
    /\ UNCHANGED <<parsed, output, reparsed>>

Untouched == pc = "input" /\ origin.tamper = NoTamper

\* The document lacks one member.
Drop(path) ==
    /\ Untouched
    /\ data' = Remove(data, path)
    /\ origin' = [origin EXCEPT !.tamper = [kind |-> "drop", path |-> path]]
    /\ UNCHANGED <<pc, parsed, output, reparsed>>

\* The document lacks several of the optional members.
DropOptionals(paths) ==
    /\ Untouched
    /\ data' = RemoveAll(data, paths)
    /\ origin' = [origin EXCEPT !.tamper = [kind |-> "dropOptionals", paths |-> paths]]
    /\ UNCHANGED <<pc, parsed, output, reparsed>>

\* A member of the document is null.
Nullify(path) ==
    /\ Untouched
    /\ data' = Put(data, path, JNull)
    /\ origin' = [origin EXCEPT !.tamper = [kind |-> "nullify", path |-> path]]
    /\ UNCHANGED <<pc, parsed, output, reparsed>>

\* The document names the irregular keys as the casing rule would.
Regularize(keys) ==
    /\ Untouched
    /\ data' = IF keys = IrregularKeys
               THEN RenameKeyIn(RenameKeyIn(data, "eventID", "eventId"),
                                "sourceIPAddress", "sourceIpAddress")
               ELSE LET k == CHOOSE x \in keys : TRUE
                    IN  RenameKeyIn(data, k, RegularKey(k))
    /\ origin' = [origin EXCEPT !.tamper = [kind |-> "regularize", keys |-> keys]]
    /\ UNCHANGED <<pc, parsed, output, reparsed>>

\* serviceEventDetails carries a second key, before or after its own.
AddDetail(key, payload, first) ==
    /\ Untouched
    /\ LET own == Get(data, <<"serviceEventDetails">>).m
           more == << <<key, payload>> >>
       IN  data' = Put(data, <<"serviceEventDetails">>,
                       JObj(IF first THEN more \o own ELSE own \o more))
    /\ origin' = [origin EXCEPT !.tamper =
                     [kind |-> "addDetail", key |-> key, first |-> first]]
    /\ UNCHANGED <<pc, parsed, output, reparsed>>

\* serviceEventDetails carries no key of its own: none at all, or one the
\* enum does not know.
ReplaceDetails(unknown) ==
    /\ Untouched
    /\ LET own == Get(data, <<"serviceEventDetails">>).m
       IN  data' = Put(data, <<"serviceEventDetails">>,
                       JObj(IF unknown THEN << <<UnknownKey, own[1][2]>> >> ELSE <<>>))
    /\ origin' = [origin EXCEPT !.tamper = [kind |-> "replaceDetails", unknown |-> unknown]]
    /\ UNCHANGED <<pc, parsed, output, reparsed>>

\* The document carries another operation's event name.
SetEventName(name) ==
    /\ Untouched
    /\ name # origin.fx.eventName
    /\ data' = Put(data, <<"eventName">>, JStr(name))
    /\ origin' = [origin EXCEPT !.tamper = [kind |-> "eventName", name |-> name]]
    /\ UNCHANGED <<pc, parsed, output, reparsed>>

\* The arrays of a document, and the ways to fill one of n elements from its
\* own elements: other orders, and elements repeated.
ListPaths(j) == {p \in KeyPaths(j) : Has(j, p) /\ Get(j, p).t = "array"}
Rearrangements(n) == {f \in [1..n -> 1..n] : \E i \in 1..n : f[i] # i}

\* An array of the document holds its elements in another order, or some of
\* them more than once.
Rearrange(path, idx) ==
    /\ Untouched
    /\ LET own == Get(data, path).a
       IN  data' = Put(data, path, JArr([i \in 1..Len(own) |-> own[idx[i]]]))
    /\ origin' = [origin EXCEPT !.tamper = [kind |-> "rearrange", path |-> path, idx |-> idx]]
    /\ UNCHANGED <<pc, parsed, output, reparsed>>

\* let parsed: ControlTowerLifecycleEvent = serde_json::from_slice(data)
Parse ==
    /\ pc = "input"
    /\ pc' = "parsed"
    /\ parsed' = from_slice(data)
    /\ UNCHANGED <<data, output, reparsed, origin>>

\* A caller constructs a value.
Build(cfg) ==
    /\ pc = "start"
    /\ pc' = "parsed"
    /\ parsed' = Ok(SampleEvent(cfg))
    /\ origin' = [kind |-> "built", cfg |-> cfg]
    /\ UNCHANGED <<data, output, reparsed>>

\* let output = serde_json::to_string(&parsed)
Encode ==
    /\ pc = "parsed"
    /\ parsed.ok
    /\ pc' = "output"
    /\ output' = to_string(parsed.v)
    /\ UNCHANGED <<data, parsed, reparsed, origin>>

\* let reparsed: ControlTowerLifecycleEvent = serde_json::from_slice(output)
Reparse ==
    /\ pc = "output"
    /\ pc' = "reparsed"
    /\ reparsed' = from_slice(output)
    /\ UNCHANGED <<data, parsed, output, origin>>

Next ==
    \/ \E fx \in ServiceDocuments : Load(fx)
    \/ \E path \in KeyPaths(data) : Drop(path)
    \/ \E paths \in SUBSET OptionalPaths : Cardinality(paths) >= 2 /\ DropOptionals(paths)
    \/ \E path \in KeyPaths(data) : Nullify(path)
    \/ \E keys \in SUBSET IrregularKeys : keys # {} /\ Regularize(keys)
    \/ \E fx \in Fixtures, first \in BOOLEAN : AddDetail(fx.key, fx.payload, first)
    \/ \E first \in BOOLEAN : AddDetail(UnknownKey, ManagedAccountStatusDoc, first)
    \/ \E unknown \in BOOLEAN : ReplaceDetails(unknown)
    \/ \E fx \in Fixtures : SetEventName(fx.eventName)
    \/ \E path \in ListPaths(data) :
          \E idx \in Rearrangements(Len(Get(data, path).a)) : Rearrange(path, idx)
    \/ Parse
    \/ \E cfg \in BuildConfigs : Build(cfg)
    \/ Encode
    \/ Reparse

Spec == Init /\ [][Next]_vars

(***************************************************************************)
(* What the claims speak of.                                                *)
(***************************************************************************)
\* data has been decoded into parsed.
Decoded == origin.kind = "document" /\ pc \in {"parsed", "output", "reparsed"}
\* parsed has been encoded into output.
Encoded == pc \in {"output", "reparsed"}
TamperIs(kind) == origin.kind = "document" /\ origin.tamper.kind = kind
Last(path) == path[Len(path)]

\* The discriminator key of each variant, as the service documents it.
DocumentedKey(variant) == (CHOOSE fx \in Fixtures : fx.variant = variant).key

\* The member of the decoded value that a path of the document leads to.
RECURSIVE ValueAt(_, _, _)
ValueAt(ty, x, path) ==
    IF path = <<>> THEN x
    ELSE CASE ty.k = "struct" ->
                LET fs == Fields(ty.name)
                    f == fs[CHOOSE i \in 1..Len(fs) : ExternalKey(fs[i]) = path[1]]
                IN  ValueAt(f.ty, x[f.name], Tail(path))
           [] ty.k = "enum" ->
                ValueAt(TStruct(VariantNamed(x.variant).payload), x.payload, Tail(path))
           [] ty.k = "Vec" -> ValueAt(ty.of, x[Position(path[1])], Tail(path))
           [] ty.k = "Option" -> ValueAt(ty.of, x[1], path)

ParsedAt(path) == ValueAt(TStruct("ControlTowerLifecycleEvent"), parsed.v, path)

(***************************************************************************)
(* C1.  Round trip: decoding the encoding of any value a caller can hold    *)
(* succeeds and gives the value back.                                       *)
(***************************************************************************)
C1_RoundTrip ==
    pc = "reparsed" => reparsed.ok /\ reparsed.v = parsed.v

(***************************************************************************)
(* C2.  Optional omission: an optional envelope attribute that holds no     *)
(* value has no key in the encoding.                                        *)
(***************************************************************************)
C2_OptionalOmission ==
    Encoded =>
        /\ parsed.v.recipient_account_id = None => ~HasKey(output, "recipientAccountId")
        /\ parsed.v.management_event = None => ~HasKey(output, "managementEvent")
        /\ parsed.v.request_parameters = None => ~HasKey(output, "requestParameters")
        /\ parsed.v.response_elements = None => ~HasKey(output, "responseElements")
        /\ parsed.v.event_category = None => ~HasKey(output, "eventCategory")

(***************************************************************************)
(* C3.  Default list: a document that lacks the key of a list-typed         *)
(* attribute decodes, and the attribute is the empty sequence.              *)
(***************************************************************************)
ListKeys == {"organizationalUnits", "accounts", "guardrails", "parameters", "failedPrechecks"}

C3_DefaultList ==
    (Decoded /\ TamperIs("drop") /\ Last(origin.tamper.path) \in ListKeys) =>
        parsed.ok /\ ParsedAt(origin.tamper.path) = <<>>

(***************************************************************************)
(* C4.  Ambiguity rejection: a serviceEventDetails object with more than    *)
(* one of the thirteen keys never decodes, and the error is of the kind     *)
(* AmbiguousVariant.                                                        *)
(***************************************************************************)
C4_AmbiguityRejection ==
    (Decoded /\ TamperIs("addDetail") /\ origin.tamper.key # UnknownKey) =>
        ~parsed.ok /\ parsed.err.code = "AmbiguousVariant"

(***************************************************************************)
(* C5.  Forward compatibility: a serviceEventDetails object with none of    *)
(* the thirteen keys fails to decode with an unknown-variant error, which   *)
(* carries the unrecognized key when there is one.                          *)
(***************************************************************************)
C5_ForwardCompatibility ==
    (Decoded /\ TamperIs("replaceDetails")) =>
        /\ ~parsed.ok
        /\ parsed.err.code = "unknown_variant"
        /\ origin.tamper.unknown => parsed.err.name = UnknownKey

(***************************************************************************)
(* C6.  Variant fidelity: a document whose serviceEventDetails has the key  *)
(* of a variant as its only key decodes to that variant, whatever its       *)
(* eventName; the encoding of a value has that variant's key as the only    *)
(* key of serviceEventDetails; no two variants share a key.                 *)
(***************************************************************************)
C6_VariantFidelity ==
    /\ (Decoded /\ origin.tamper.kind \in {"none", "eventName"}) =>
          /\ parsed.ok
          /\ parsed.v.service_event_details.variant = origin.fx.variant
    /\ Encoded =>
          LET d == Get(output, <<"serviceEventDetails">>)
          IN  /\ d.t = "object"
              /\ Len(d.m) = 1
              /\ d.m[1][1] = DocumentedKey(parsed.v.service_event_details.variant)
    /\ \A a, b \in Variants : VariantKey(a) = VariantKey(b) => a = b

C6_Witness ==
    /\ Encoded
    /\ TamperIs("eventName")
    /\ origin.fx.variant = "CreateManagedAccountStatus"
    /\ Get(data, <<"eventName">>) = JStr("DisableBaseline")
    /\ parsed.v.service_event_details.variant = "CreateManagedAccountStatus"
    /\ HasKey(Get(output, <<"serviceEventDetails">>), "createManagedAccountStatus")

(***************************************************************************)
(* C7.  Baseline optionality: for each of the four baseline variants the    *)
(* decoded status has baseline details exactly when the document carries a  *)
(* baselineDetails object, and then the ones the document carries; the      *)
(* document decodes either way.                                             *)
(***************************************************************************)
BaselineDetailsPath == <<"serviceEventDetails", origin.fx.key, "baselineDetails">>

C7_BaselineOptionality ==
    (Decoded /\ origin.fx.variant \in BaselineVariants) =>
        /\ ( \/ origin.tamper.kind \in {"none", "eventName"}
             \/ /\ origin.tamper.kind \in {"drop", "nullify"}
                /\ origin.tamper.path = BaselineDetailsPath ) => parsed.ok
        /\ parsed.ok =>
              LET status == parsed.v.service_event_details.payload
                  carried == /\ Has(data, BaselineDetailsPath)
                             /\ Get(data, BaselineDetailsPath).t = "object"
              IN  /\ parsed.v.service_event_details.variant = origin.fx.variant
                  /\ status.baseline_details # None <=> carried
                  /\ carried =>
                        JStr(status.baseline_details[1].arn)
                            = Get(data, BaselineDetailsPath \o <<"arn">>)

C7_Witness ==
    /\ Decoded
    /\ parsed.ok
    /\ origin.fx.variant = "EnableBaselineStatus"
    /\ origin.tamper.kind = "none"
    /\ Has(data, BaselineDetailsPath)
    /\ parsed.v.service_event_details.payload.baseline_details # None

(***************************************************************************)
(* C8.  Missing required field: a document that lacks the key of a required *)
(* envelope attribute fails to decode with a missing-field error that names *)
(* the key.                                                                 *)
(***************************************************************************)
RequiredPaths ==
    {<<"eventVersion">>, <<"userIdentity">>, <<"userIdentity", "accountId">>,
     <<"eventTime">>, <<"eventSource">>, <<"eventName">>, <<"awsRegion">>,
     <<"sourceIPAddress">>, <<"userAgent">>, <<"eventID">>, <<"readOnly">>,
     <<"eventType">>, <<"serviceEventDetails">>}

C8_MissingRequiredField ==
    (Decoded /\ TamperIs("drop") /\ origin.tamper.path \in RequiredPaths) =>
        /\ ~parsed.ok
        /\ parsed.err = [code |-> "missing_field", name |-> Last(origin.tamper.path)]

C8_Witness ==
    /\ Decoded
    /\ TamperIs("drop")
    /\ origin.tamper.path = <<"userIdentity", "accountId">>
    /\ ~parsed.ok

(***************************************************************************)
(* C9.  Absent-tolerant optionals: a document that lacks any subset of the  *)
(* optional attributes decodes; each one it lacks holds no value, and every *)
(* other attribute is what it is when the document lacks nothing.           *)
(***************************************************************************)
Lacking ==
    CASE origin.tamper.kind = "dropOptionals" -> origin.tamper.paths
      [] origin.tamper.kind = "drop" -> {origin.tamper.path}
      [] origin.tamper.kind = "none" -> {}

LackIfDropped(path, held) == IF path \in Lacking THEN None ELSE held

C9_AbsentTolerantOptionals ==
    (/\ Decoded
     /\ origin.tamper.kind \in {"none", "drop", "dropOptionals"}
     /\ Lacking \subseteq OptionalPaths) =>
        LET whole == from_slice(FixtureDoc(origin.fx)).v
        IN  /\ parsed.ok
            /\ parsed.v =
                 [whole EXCEPT
                    !.management_event = LackIfDropped(<<"managementEvent">>, @),
                    !.recipient_account_id = LackIfDropped(<<"recipientAccountId">>, @),
                    !.request_parameters = LackIfDropped(<<"requestParameters">>, @),
                    !.response_elements = LackIfDropped(<<"responseElements">>, @),
                    !.event_category = LackIfDropped(<<"eventCategory">>, @),
                    !.user_identity.invoked_by =
                        LackIfDropped(<<"userIdentity", "invokedBy">>, @)]
            /\ whole.management_event # None /\ whole.user_identity.invoked_by # None

C9_Witness ==
    /\ Decoded
    /\ TamperIs("dropOptionals")
    /\ origin.tamper.paths = OptionalPaths
    /\ parsed.ok
    /\ parsed.v.user_identity.invoked_by = None
    /\ parsed.v.request_parameters = None

(***************************************************************************)
(* C10.  Irregular keys: the event id is read from and written to eventID   *)
(* and the source IP sourceIPAddress; every other envelope attribute uses   *)
(* the lower camel case of its name; a document that gives the two values   *)
(* under eventId and sourceIpAddress does not decode, and no encoding has   *)
(* those keys.                                                              *)
(***************************************************************************)
EnvelopeKeys ==
    {"eventVersion", "userIdentity", "eventTime", "eventSource", "eventName",
     "awsRegion", "sourceIPAddress", "userAgent", "eventID", "readOnly",
     "eventType", "serviceEventDetails", "managementEvent", "recipientAccountId",
     "requestParameters", "responseElements", "eventCategory"}

C10_IrregularKeys ==
    /\ Encoded =>
          /\ Keys(output) = EnvelopeKeys
          /\ Get(output, <<"eventID">>) = JStr(parsed.v.event_id)
          /\ Get(output, <<"sourceIPAddress">>) = JStr(parsed.v.source_ip_address)
          /\ Get(output, <<"eventVersion">>) = JStr(parsed.v.event_version)
          /\ Get(output, <<"userAgent">>) = JStr(parsed.v.user_agent)
    /\ (Decoded /\ parsed.ok) =>
          /\ HasKey(data, "eventID") /\ HasKey(data, "sourceIPAddress")
          /\ JStr(parsed.v.event_id) = Get(data, <<"eventID">>)
          /\ JStr(parsed.v.source_ip_address) = Get(data, <<"sourceIPAddress">>)
    /\ (Decoded /\ TamperIs("regularize")) => ~parsed.ok

C10_Witness ==
    /\ Decoded
    /\ TamperIs("regularize")
    /\ origin.tamper.keys = IrregularKeys
    /\ HasKey(data, "eventId") /\ HasKey(data, "sourceIpAddress")
    /\ parsed.err = [code |-> "missing_field", name |-> "sourceIPAddress"]

(***************************************************************************)
(* C11.  List order: a decoded list holds the elements of the document's    *)
(* array, each as often and in the place it has there; an encoded array     *)
(* holds the elements of the value's list in the order the value holds      *)
(* them; nothing is sorted, deduplicated or reversed, so a value whose list *)
(* is in another order is another value and has another encoding.           *)
(***************************************************************************)
\* What tells the elements of each list apart: the key in the document and
\* the field in the value (the failed prechecks are strings themselves).
ElementId(listKey) ==
    CASE listKey = "organizationalUnits" -> <<"organizationalUnitId", "organizational_unit_id">>
      [] listKey = "accounts" -> <<"accountId", "account_id">>
      [] listKey = "guardrails" -> <<"guardrailId", "guardrail_id">>
      [] listKey = "parameters" -> <<"key", "key">>

DocIds(j, path) ==
    LET a == Get(j, path).a
    IN  [i \in 1..Len(a) |->
           IF Last(path) = "failedPrechecks" THEN a[i].s
           ELSE Get(a[i], <<ElementId(Last(path))[1]>>).s]

ValueIds(path) ==
    LET l == ParsedAt(path)
    IN  [i \in 1..Len(l) |->
           IF Last(path) = "failedPrechecks" THEN l[i]
           ELSE l[i][ElementId(Last(path))[2]]]

C11_ListOrder ==
    /\ (Decoded /\ parsed.ok) =>
          \A path \in ListPaths(data) :
              /\ Last(path) \in ListKeys
              /\ ValueIds(path) = DocIds(data, path)
    /\ Encoded =>
          \A path \in ListPaths(output) :
              /\ Last(path) \in ListKeys
              /\ DocIds(output, path) = ValueIds(path)
    /\ (Decoded /\ TamperIs("rearrange")) =>
          LET whole == from_slice(FixtureDoc(origin.fx)).v
          IN  /\ parsed.ok
              /\ parsed.v # whole
              /\ Encoded => output # to_string(whole)

C11_Witness ==
    /\ pc = "reparsed"
    /\ TamperIs("rearrange")
    /\ origin.fx.variant = "PrecheckOrganizationalUnitStatus"
    /\ Last(origin.tamper.path) = "accounts"
    /\ origin.tamper.idx[1] = 2 /\ origin.tamper.idx[2] = 2
    /\ parsed.ok
    /\ parsed.v.service_event_details.payload.accounts[1].account_id = "111111111112"
    /\ parsed.v.service_event_details.payload.accounts[2].account_id = "111111111112"
    /\ DocIds(output, origin.tamper.path)[1] = "111111111112"

====
